---- MODULE Spec2Model ----
(***************************************************************************)
(* Model of models/gve.py: the GVE sentence generator.                     *)
(*                                                                         *)
(* One method call of a GVE object is in flight at a time.  `call' names   *)
(* the method, `args' holds its arguments, `pc' its position, `result'     *)
(* what it returned.  The locals of generate_sentence are variables of     *)
(* their own because its loop runs one action per iteration.               *)
(*                                                                         *)
(* Tensors are modelled by their shape and their integer content.  The     *)
(* recurrent network (lstm1, lstm2, linear2) is an unknown function of     *)
(* the weights: under Spec the logits of every step are any row of         *)
(* LogitRows; under TwiceSpec they are computed from a weight index and    *)
(* the recurrent state, so that two calls can be compared.                 *)
(***************************************************************************)
EXTENDS Integers, Sequences, FiniteSets, TLC

VARIABLES call, args, pc, result,
          i, reached_end, sampled_ids, log_probabilities, lengths,
          predicted, embedded_word, lstm_states,
          weights, run, first_result

vars == <<call, args, pc, result,
          i, reached_end, sampled_ids, log_probabilities, lengths,
          predicted, embedded_word, lstm_states,
          weights, run, first_result>>

gen_locals == <<i, reached_end, sampled_ids, log_probabilities, lengths,
                predicted, embedded_word, lstm_states>>

----------------------------------------------------------------------------
(* Bounds of the model. *)

MaxBatch == 2
MaxSamplingLength == 2
VocabSize == 2
MaxClasses == 5
MaxLen == 3
MaxRows == 1
MaxLogit == 1
ExpMax == 3
FracBits == 3
MaxWeights == 2

Vocab == 0 .. (VocabSize - 1)
Batch(B) == 1 .. B
None == "None"

----------------------------------------------------------------------------
(* Tensor helpers. *)

RECURSIVE Prod(_)
\* Tensor.numel() of a shape.
Prod(shape) == IF shape = <<>> THEN 1 ELSE Head(shape) * Prod(Tail(shape))

RECURSIVE SqueezeShape(_)
\* Tensor.squeeze(): every dimension of size 1 is removed.
SqueezeShape(shape) ==
    IF shape = <<>> THEN <<>>
    ELSE IF Head(shape) = 1 THEN SqueezeShape(Tail(shape))
         ELSE <<Head(shape)>> \o SqueezeShape(Tail(shape))

\* Tensor.all() of a byte tensor (true of the empty tensor).
AnyReached(flags) == \E b \in DOMAIN flags : flags[b]
All(flags) == \A b \in DOMAIN flags : flags[b]

\* A row of logits that peaks at index w, and the row of equal logits.
Peak(w) == [v \in Vocab |-> IF v = w THEN 1 ELSE 0]
Flat == [v \in Vocab |-> 0]
\* The rows linear2 produces under unknown weights.
LogitRows == {Peak(w) : w \in Vocab} \cup {Flat}

RowMax(row) == CHOOSE m \in {row[v] : v \in DOMAIN row} :
                   \A v \in DOMAIN row : row[v] <= m

\* outputs.max(1)[1]: the index of the first maximal logit of a row.
Argmax(row) == CHOOSE v \in DOMAIN row :
                   /\ row[v] = RowMax(row)
                   /\ \A u \in DOMAIN row : row[u] = RowMax(row) => v <= u

----------------------------------------------------------------------------
(* generate_sentence, lines 99-154. *)

\* Line 123: the loop runs while not every element reached the end token and
\* fewer than max_sampling_length steps were made.
LoopCondAny(re, k, n) == ~AnyReached(re) /\ k < n
LoopCondOffByOne(re, k, n) == ~All(re) /\ k <= n
LoopCond(re, k, n) == ~All(re) /\ k < n

\* Line 137: active_batches = ~reached_end.  On the byte tensors of the
\* PyTorch this code is written for (Variable, to_var), ~ is 1 - self: the
\* logical negation of a 0/1 mask.
ActiveBatchesAll(re) == [b \in DOMAIN re |-> TRUE]
ActiveBatches(re) == [b \in DOMAIN re |-> ~re[b]]

\* Line 136, Categorical.log_prob of the drawn token: the logarithm of a
\* probability clamped into [eps, 1 - eps], a finite and strictly negative
\* number.  Only its sign matters here: -1 stands for every such value.
LogProb(tok) == 0 - 1

\* Line 138: log_p *= active_batches.float().
MaskLogP(log_p, active) ==
    [b \in DOMAIN log_p |-> log_p[b] * (IF active[b] THEN 1 ELSE 0)]

\* Line 139: log_probabilities.append(log_p.unsqueeze(1)).
AppendLogP(trace, log_p) == [b \in DOMAIN trace |-> Append(trace[b], log_p[b])]

\* Line 140: lengths += active_batches.long().
LengthsUpdate(len, active) ==
    [b \in DOMAIN len |-> len[b] + (IF active[b] THEN 1 ELSE 0)]

\* Line 143: reached_end = reached_end | predicted.eq(end_word).data.
ReachedEndOverwrite(re, pred, end) == [b \in DOMAIN re |-> pred[b] = end]
ReachedEndUpdate(re, pred, end) == [b \in DOMAIN re |-> re[b] \/ pred[b] = end]

\* Line 144: sampled_ids.append(predicted.unsqueeze(1)); the prediction is
\* recorded as it is, also for an element whose flag is already set.
AppendIdsFrozen(ids, pred, re, end) ==
    [b \in DOMAIN ids |-> Append(ids[b], IF re[b] THEN end ELSE pred[b])]
AppendIds(ids, pred, re, end) == [b \in DOMAIN ids |-> Append(ids[b], pred[b])]

\* Lines 101-122: the locals when the loop is first reached.
GenerateEntry(a) ==
    /\ i = 0
    /\ reached_end = [b \in Batch(a.batch) |-> FALSE]
    /\ sampled_ids = [b \in Batch(a.batch) |-> <<>>]
    /\ log_probabilities =
           IF a.sample THEN [b \in Batch(a.batch) |-> <<>>] ELSE None
    /\ lengths = IF a.sample THEN [b \in Batch(a.batch) |-> 0] ELSE None
    /\ predicted = None
    /\ embedded_word = [b \in Batch(a.batch) |-> a.start_word]
    /\ lstm_states = a.states

\* Lines 135-148: the body of the loop once the prediction pred is made.
LoopBody(pred) ==
    /\ predicted' = pred
    /\ IF args.sample
       THEN /\ log_probabilities' =
                   AppendLogP(log_probabilities,
                              MaskLogP([b \in Batch(args.batch) |-> LogProb(pred[b])],
                                       ActiveBatches(reached_end)))
            /\ lengths' = LengthsUpdate(lengths, ActiveBatches(reached_end))
       ELSE UNCHANGED <<log_probabilities, lengths>>
    /\ reached_end' = ReachedEndUpdate(reached_end, pred, args.end_word)
    /\ sampled_ids' = AppendIds(sampled_ids, pred, reached_end, args.end_word)
    /\ embedded_word' = pred
    /\ i' = i + 1

\* One greedy iteration of the loop with unknown weights (lines 123-134,
\* 142-148): the prediction is the argmax of whatever logits linear2 gives.
GenStepGreedy ==
    /\ call = "generate_sentence" /\ pc = "loop" /\ weights = None
    /\ ~args.sample
    /\ LoopCond(reached_end, i, args.max_sampling_length)
    /\ \E outputs \in [Batch(args.batch) -> LogitRows] :
          LoopBody([b \in Batch(args.batch) |-> Argmax(outputs[b])])
    /\ UNCHANGED <<call, args, pc, result, lstm_states, weights, run, first_result>>

\* One sampling iteration (lines 123-140, 143-148): Categorical over a softmax
\* gives every index a positive probability, so any token may be drawn
\* whatever the logits are.
GenStepSample ==
    /\ call = "generate_sentence" /\ pc = "loop" /\ weights = None
    /\ args.sample
    /\ LoopCond(reached_end, i, args.max_sampling_length)
    /\ \E pred \in [Batch(args.batch) -> Vocab] : LoopBody(pred)
    /\ UNCHANGED <<call, args, pc, result, lstm_states, weights, run, first_result>>

\* Lines 150-154 after at least one step: torch.cat and squeeze, then return.
Returned(a, steps, ids, logp, len) ==
    [ids_shape |-> SqueezeShape(<<a.batch, steps>>),
     sampled_ids |-> ids,
     log_probabilities |-> logp,
     lengths |-> len]

GenReturn ==
    /\ call = "generate_sentence" /\ pc = "loop"
    /\ ~LoopCond(reached_end, i, args.max_sampling_length)
    /\ i > 0
    /\ pc' = "returned"
    /\ result' = Returned(args, i, sampled_ids, log_probabilities, lengths)
    /\ UNCHANGED <<call, args, gen_locals, weights, run, first_result>>

\* Line 150 after no step at all: torch.cat of an empty list raises.
GenRaise ==
    /\ call = "generate_sentence" /\ pc = "loop"
    /\ ~LoopCond(reached_end, i, args.max_sampling_length)
    /\ i = 0
    /\ pc' = "raised"
    /\ result' = "RuntimeError"
    /\ UNCHANGED <<call, args, gen_locals, weights, run, first_result>>

\* A call of generate_sentence with unknown weights.
GenArgs ==
    [batch : 1 .. MaxBatch, start_word : {0}, end_word : Vocab,
     states : {None}, max_sampling_length : 0 .. MaxSamplingLength,
     sample : BOOLEAN]

InitGenerate ==
    /\ call = "generate_sentence" /\ pc = "loop" /\ result = None
    /\ args \in GenArgs
    /\ GenerateEntry(args)
    /\ weights = None /\ run = 1 /\ first_result = None

----------------------------------------------------------------------------
(* convert_onehot, lines 156-160. *)

\* Lines 157-158: torch.zeros(labels.size(0), self.num_classes); columns are
\* numbered from 0 as in the source.
Zeros(rows, cols) == [r \in 1 .. rows |-> [c \in 0 .. (cols - 1) |-> 0]]

\* Line 159: scatter_(1, labels.unsqueeze(1), 1) writes value at column
\* index[r] of every row r.
ScatterShifted(t, index, value) ==
    [r \in DOMAIN t |->
        [c \in DOMAIN t[r] |-> IF c + 1 = index[r] THEN value ELSE t[r][c]]]
Scatter(t, index, value) ==
    [r \in DOMAIN t |->
        [c \in DOMAIN t[r] |-> IF c = index[r] THEN value ELSE t[r][c]]]

\* scatter_ raises when an index is not a column of the tensor.
ScatterInRange(t, index) == \A r \in DOMAIN t : index[r] \in DOMAIN t[r]

convert_onehot(labels, num_classes) ==
    Scatter(Zeros(Len(labels), num_classes), labels, 1)

ConvertOnehot ==
    /\ call = "convert_onehot" /\ pc = "entry"
    /\ ScatterInRange(Zeros(Len(args.labels), args.num_classes), args.labels)
    /\ pc' = "returned"
    /\ result' = convert_onehot(args.labels, args.num_classes)
    /\ UNCHANGED <<call, args, gen_locals, weights, run, first_result>>

ConvertOnehotRaise ==
    /\ call = "convert_onehot" /\ pc = "entry"
    /\ ~ScatterInRange(Zeros(Len(args.labels), args.num_classes), args.labels)
    /\ pc' = "raised"
    /\ result' = "RuntimeError"
    /\ UNCHANGED <<call, args, gen_locals, weights, run, first_result>>

NoLocals ==
    /\ i = 0 /\ reached_end = None /\ sampled_ids = None
    /\ log_probabilities = None /\ lengths = None /\ predicted = None
    /\ embedded_word = None /\ lstm_states = None
    /\ weights = None /\ run = 1 /\ first_result = None

InitConvertOnehot ==
    /\ call = "convert_onehot" /\ pc = "entry" /\ result = None
    /\ \E C \in 1 .. MaxClasses : \E B \in 1 .. MaxBatch :
          \E labels \in [1 .. B -> 0 .. C] :
             args = [labels |-> labels, num_classes |-> C]
    /\ NoLocals

----------------------------------------------------------------------------
(* log_sum_exp, lines 80-89.                                               *)
(*                                                                         *)
(* Floating point is modelled in base 2 with FracBits fractional bits: a   *)
(* number is [kind |-> "fin", val |-> n] for n / 2^FracBits, or an         *)
(* infinity.  Exp overflows to +inf above ExpMax and underflows to 0 below *)
(* -FracBits, as exp does at the ends of the float range.  Logits are      *)
(* integers; ExtremeLogit is a magnitude whose exponential overflows.      *)

RECURSIVE Pow2(_)
Pow2(n) == IF n <= 0 THEN 1 ELSE 2 * Pow2(n - 1)

Fin(n) == [kind |-> "fin", val |-> n]
PosInf == [kind |-> "+inf", val |-> 0]
NegInf == [kind |-> "-inf", val |-> 0]

ExtremeLogit == ExpMax + MaxLogit + 1
LogitValues == (0 .. MaxLogit) \cup {ExtremeLogit, 0 - ExtremeLogit}

\* Tensor.exp() of one entry, scaled by 2^FracBits.
Exp(x) == IF x > ExpMax THEN PosInf
          ELSE IF x < 0 - FracBits THEN Fin(0)
          ELSE Fin(Pow2(x + FracBits))

RECURSIVE SumVals(_, _)
SumVals(f, S) == IF S = {} THEN 0
                 ELSE LET v == CHOOSE u \in S : TRUE
                      IN f[v].val + SumVals(f, S \ {v})

\* Tensor.sum(dim=-1) of a row of floats.
Sum(f) == IF \E v \in DOMAIN f : f[v].kind = "+inf" THEN PosInf
          ELSE Fin(SumVals(f, DOMAIN f))

RowMin(row) == CHOOSE m \in {row[v] : v \in DOMAIN row} :
                   \A v \in DOMAIN row : m <= row[v]

\* Line 88: max_val = tensor.max(dim=-1, keepdim=True)[0], for one row.
MaxVal(row) == RowMax(row)

\* Line 89: the values (tensor - max_val) handed to exp, for one row.
ExpArgs(row) == [v \in DOMAIN row |-> row[v] - MaxVal(row)]

\* Line 89: (tensor - max_val).exp().sum(dim=-1), for one row.
SumExp(row) == Sum([v \in DOMAIN row |-> Exp(ExpArgs(row)[v])])

\* Line 89: max_val + s.log().  A finite result is kept in the closed form
\* max + log2(sum / 2^FracBits); log(0) is -inf and log(+inf) is +inf.
AddLog(m, s) == IF s.kind = "+inf" THEN [kind |-> "+inf", max |-> 0, sum |-> 0]
                ELSE IF s.val = 0 THEN [kind |-> "-inf", max |-> 0, sum |-> 0]
                ELSE [kind |-> "fin", max |-> m, sum |-> s.val]

\* Lines 88-89 for a tensor of rows.  With keepdim the sum has shape (R, 1)
\* like max_val; without it the sum has shape (R,) and the addition
\* broadcasts (R, 1) + (R,) to (R, R), entry (r, c) adding row r's maximum to
\* row c's sum.
log_sum_exp(tensor, keepdim) ==
    [r \in DOMAIN tensor |->
        [c \in (IF keepdim THEN {1} ELSE DOMAIN tensor) |->
            AddLog(MaxVal(tensor[r]),
                   SumExp(tensor[IF keepdim THEN r ELSE c]))]]

LogSumExp ==
    /\ call = "log_sum_exp" /\ pc = "entry"
    /\ pc' = "returned"
    /\ result' = log_sum_exp(args.tensor, args.keepdim)
    /\ UNCHANGED <<call, args, gen_locals, weights, run, first_result>>

InitLogSumExp ==
    /\ call = "log_sum_exp" /\ pc = "entry" /\ result = None
    /\ \E R \in 1 .. MaxRows : \E t \in [1 .. R -> [Vocab -> LogitValues]] :
          \E keepdim \in BOOLEAN : args = [tensor |-> t, keepdim |-> keepdim]
    /\ NoLocals

----------------------------------------------------------------------------
(* forward, lines 42-70, by the shapes of its tensors. *)

RECURSIVE SeqSum(_)
SeqSum(q) == IF q = <<>> THEN 0 ELSE Head(q) + SeqSum(Tail(q))

\* pack_padded_sequence accepts lengths in decreasing order, each at least 1
\* and none beyond the padded width.
Packable(shape, lens) ==
    /\ Len(lens) = shape[1]
    /\ \A b \in 1 .. (Len(lens) - 1) : lens[b] >= lens[b + 1]
    /\ \A b \in 1 .. Len(lens) : 1 <= lens[b] /\ lens[b] <= shape[2]

\* Lines 58, 63: pack_padded_sequence(x, lengths, batch_first=True).data has
\* one row per valid time step.
PackedDataShape(shape, lens) == <<SeqSum(lens), shape[3]>>

\* Line 60: pad_packed_sequence(hiddens, batch_first=True) pads to the longest
\* sequence of the batch (no total_length is given).
PadPackedShape(B, lens, width) == <<B, lens[1], width>>

\* Line 61: torch.cat((a, b), 2) needs equal sizes in dimensions 0 and 1.
CatDim2Ok(a, b) == a[1] = b[1] /\ a[2] = b[2]
CatDim2Shape(a, b) == <<a[1], a[2], a[3] + b[3]>>

\* Lines 47-55: the shapes of embeddings and of the expanded image features.
EmbeddingsShape(a) == <<a.batch, a.max_len, a.word_embed_size>>
ImageFeaturesShape(a) ==
    <<a.batch, EmbeddingsShape(a)[2], a.hidden_size + a.num_classes>>

\* Lines 58-60: lstm1 over the packed embeddings, padded again.
UnpackedHiddensShape(a) ==
    PadPackedShape(a.batch, a.lengths, a.hidden_size)

Forward ==
    /\ call = "forward" /\ pc = "entry"
    /\ Packable(EmbeddingsShape(args), args.lengths)
    /\ CatDim2Ok(ImageFeaturesShape(args), UnpackedHiddensShape(args))
    /\ Packable(CatDim2Shape(ImageFeaturesShape(args), UnpackedHiddensShape(args)),
                args.lengths)
    /\ pc' = "returned"
    \* Lines 63-69: pack, lstm2, linear2 on the packed data.
    /\ result' =
          <<PackedDataShape(
                CatDim2Shape(ImageFeaturesShape(args), UnpackedHiddensShape(args)),
                args.lengths)[1],
            args.vocab_size>>
    /\ UNCHANGED <<call, args, gen_locals, weights, run, first_result>>

\* Line 58: the lengths are not packable.
ForwardRaisePack ==
    /\ call = "forward" /\ pc = "entry"
    /\ ~Packable(EmbeddingsShape(args), args.lengths)
    /\ pc' = "raised"
    /\ result' = "ValueError"
    /\ UNCHANGED <<call, args, gen_locals, weights, run, first_result>>

\* Line 61: the time dimensions of the two tensors differ.
ForwardRaiseCat ==
    /\ call = "forward" /\ pc = "entry"
    /\ Packable(EmbeddingsShape(args), args.lengths)
    /\ ~CatDim2Ok(ImageFeaturesShape(args), UnpackedHiddensShape(args))
    /\ pc' = "raised"
    /\ result' = "RuntimeError"
    /\ UNCHANGED <<call, args, gen_locals, weights, run, first_result>>

InitForward ==
    /\ call = "forward" /\ pc = "entry" /\ result = None
    /\ \E B \in 1 .. MaxBatch : \E W \in 1 .. MaxLen :
          \E lens \in [1 .. B -> 1 .. W] :
             args = [batch |-> B, max_len |-> W, lengths |-> lens,
                     word_embed_size |-> 3, hidden_size |-> 2,
                     num_classes |-> MaxClasses, vocab_size |-> VocabSize]
    /\ NoLocals

----------------------------------------------------------------------------
(* Two greedy calls of generate_sentence on one GVE object with the same   *)
(* arguments.  The weights are a number, the recurrent state of each LSTM  *)
(* a bit, and the layers fixed functions of them, so that what the second  *)
(* call computes can be compared with what the first one did.  The default *)
(* states=(None, None) is the zero state <<0, 0>> nn.LSTM starts from.     *)

\* Line 127: lstm1 on the embedded word and its state.
Lstm1(w, word, h1) == (h1 + word + w) % 2

\* Lines 129-132: lstm2 on the image features, lstm1's output and its state.
Lstm2(w, feat, out1, h2) == (h2 + out1 + feat) % 2

\* Line 134: linear2 on lstm2's output.
Linear2(w, out2) == Peak((out2 + w) % VocabSize)

\* Lines 127-132 for the batch: the new pair of recurrent states.
StepStates(w, a, words, states) ==
    [b \in Batch(a.batch) |->
        LET h1 == Lstm1(w, words[b], states[b][1])
        IN <<h1, Lstm2(w, a.features[b], h1, states[b][2])>>]

\* Line 113: the loop starts from the `states` argument; the states an
\* earlier call ended with (left) are locals of that call and are gone.
CallEntryStatesLeft(a, left) == left
CallEntryStates(a, left) == a.states

TwiceStep ==
    /\ call = "generate_sentence" /\ pc = "loop"
    /\ ~args.sample
    /\ LoopCond(reached_end, i, args.max_sampling_length)
    /\ lstm_states' = StepStates(weights, args, embedded_word, lstm_states)
    /\ LoopBody([b \in Batch(args.batch) |->
                    Argmax(Linear2(weights, lstm_states'[b][2]))])
    /\ UNCHANGED <<call, args, pc, result, weights, run, first_result>>

\* The caller keeps what the first call returned and calls again with the
\* same arguments (lines 101-122 run again).
SecondCall ==
    /\ call = "generate_sentence" /\ pc = "returned" /\ run = 1
    /\ first_result' = [steps |-> i, result |-> result]
    /\ run' = 2
    /\ pc' = "loop"
    /\ result' = None
    /\ i' = 0
    /\ reached_end' = [b \in Batch(args.batch) |-> FALSE]
    /\ sampled_ids' = [b \in Batch(args.batch) |-> <<>>]
    /\ predicted' = None
    /\ embedded_word' = [b \in Batch(args.batch) |-> args.start_word]
    /\ lstm_states' = CallEntryStates(args, lstm_states)
    /\ UNCHANGED <<call, args, log_probabilities, lengths, weights>>

InitTwice ==
    /\ call = "generate_sentence" /\ pc = "loop" /\ result = None
    /\ \E B \in 1 .. MaxBatch :
          args \in [batch : {B}, start_word : Vocab, end_word : Vocab,
                    states : [1 .. B -> {<<0, 0>>, <<1, 1>>}],
                    features : [1 .. B -> 0 .. 1],
                    max_sampling_length : 1 .. MaxSamplingLength,
                    sample : {FALSE}]
    /\ GenerateEntry(args)
    /\ weights \in 0 .. MaxWeights /\ run = 1 /\ first_result = None

TwiceNext == TwiceStep \/ GenReturn \/ SecondCall
TwiceSpec == InitTwice /\ [][TwiceNext]_vars

----------------------------------------------------------------------------

Init == InitGenerate \/ InitConvertOnehot \/ InitLogSumExp \/ InitForward
Next == \/ GenStepGreedy \/ GenStepSample \/ GenReturn \/ GenRaise
        \/ ConvertOnehot \/ ConvertOnehotRaise
        \/ LogSumExp
        \/ Forward \/ ForwardRaisePack \/ ForwardRaiseCat
Spec == Init /\ [][Next]_vars

----------------------------------------------------------------------------
(* Properties. *)

IsGen == call = "generate_sentence"
Exited == pc \in {"returned", "raised"}

\* Element b predicted the end token at step k.
EndAt(b, k) == sampled_ids[b][k] = args.end_word
\* Element b predicted the end token at one of the steps 1..t.
ReachedBy(b, t) == \E k \in 1 .. t : EndAt(b, k)
AllReachedBy(t) == \A b \in Batch(args.batch) : ReachedBy(b, t)
\* The first step at which b predicted the end token.
FirstEnd(b) == CHOOSE k \in 1 .. i : EndAt(b, k) /\ ~ReachedBy(b, k - 1)

\* C1: the loop of generate_sentence stops at the first of two events and
\* neither before nor after: every element has predicted the end token, or
\* max_sampling_length steps were made.  So every executed step began with
\* neither event, and the loop is left only with one of them.
C1_StopsAtFirstEvent ==
    IsGen =>
      /\ \A t \in 0 .. (i - 1) :
            ~AllReachedBy(t) /\ t < args.max_sampling_length
      /\ Exited => (AllReachedBy(i) \/ i = args.max_sampling_length)

C1_Witness ==
    /\ IsGen /\ pc = "returned" /\ args.batch = 2
    /\ args.max_sampling_length = 2 /\ i = 1 /\ AllReachedBy(1)

\* C2: every call of generate_sentence, for every max_sampling_length >= 0,
\* ends by returning its result normally after at most max_sampling_length
\* iterations.
C2_ReturnsNormally ==
    (IsGen /\ Exited) => (pc = "returned" /\ i <= args.max_sampling_length)

\* C3: with max_sampling_length = N >= 1 and no element ever predicting the
\* end token, generate_sentence makes exactly N steps and returns, for each of
\* the B elements, exactly N tokens, none of them the end token.
C3_ExactlyNSteps ==
    (/\ IsGen /\ Exited /\ args.max_sampling_length >= 1
     /\ \A b \in Batch(args.batch) : ~reached_end[b])
    => /\ pc = "returned"
       /\ i = args.max_sampling_length
       /\ Prod(<<args.batch, args.max_sampling_length>>) = Prod(result.ids_shape)
       /\ \A b \in Batch(args.batch) :
             /\ Len(result.sampled_ids[b]) = args.max_sampling_length
             /\ \A k \in 1 .. Len(result.sampled_ids[b]) :
                   result.sampled_ids[b][k] # args.end_word

C3_Witness ==
    /\ IsGen /\ pc = "returned" /\ args.batch = 2
    /\ args.max_sampling_length = 2 /\ i = 2
    /\ \A b \in Batch(args.batch) : ~reached_end[b]

\* C4: once an element predicted the end token at step k, its reached-end
\* flag is set at every later step, and in sampling mode its log-probability
\* at every step after k is zero and its active length is at most k.
C4_EndIsSticky ==
    IsGen =>
      \A b \in Batch(args.batch) : \A k \in 1 .. i :
         EndAt(b, k) =>
            /\ reached_end[b]
            /\ args.sample =>
                  /\ lengths[b] <= k
                  /\ \A t \in (k + 1) .. i : log_probabilities[b][t] = 0

C4_Witness ==
    /\ IsGen /\ args.sample /\ i = 2
    /\ \E b \in Batch(args.batch) :
          /\ EndAt(b, 1) /\ ~EndAt(b, 2)
          /\ reached_end[b] /\ lengths[b] = 1 /\ log_probabilities[b][2] = 0

\* An element that has reached the end token while the loop goes on.
FinishedInLoop(b) ==
    /\ IsGen /\ pc = "loop" /\ weights = None
    /\ reached_end[b]
    /\ LoopCond(reached_end, i, args.max_sampling_length)

\* C5 as stated: once an element has predicted the end token while the loop
\* goes on, the token recorded for it at a later step is a fixed value,
\* whatever the model predicts at that step.
C5_TokensFrozen ==
    IsGen =>
      \A b \in Batch(args.batch) :
         FinishedInLoop(b) =>
            \E c \in Vocab : ~ENABLED (Next /\ sampled_ids'[b][i + 1] # c)

\* C5 amended: the token recorded for such an element at a later step is the
\* model's fresh prediction at that step, not a frozen or masked value: every
\* vocabulary token can be recorded, and what is recorded is the prediction.
C5_TokensAreFresh ==
    IsGen =>
      \A b \in Batch(args.batch) :
         /\ i > 0 => sampled_ids[b][i] = predicted[b]
         /\ FinishedInLoop(b) =>
               \A v \in Vocab : ENABLED (Next /\ sampled_ids'[b][i + 1] = v)

C5_Witness ==
    /\ IsGen /\ i = 2 /\ pc = "returned"
    /\ \E b \in Batch(args.batch) :
          /\ EndAt(b, 1) /\ ~EndAt(b, 2)
          /\ result.sampled_ids[b][2] = predicted[b]

\* C6: for declared lengths that are non-increasing with 1 <= L[b] <= max_len,
\* also when max(L) < max_len, forward returns sum(L) rows of vocab_size
\* logits.
C6_SumOfLengthsRows ==
    (/\ call = "forward" /\ pc # "entry"
     /\ Packable(EmbeddingsShape(args), args.lengths))
    => /\ pc = "returned"
       /\ result = <<SeqSum(args.lengths), args.vocab_size>>

\* C7: two greedy calls with the same weights and arguments make the same
\* number of steps and return the same token sequences.
C7_GreedyDeterministic ==
    (IsGen /\ run = 2 /\ pc = "returned" /\ ~args.sample)
    => /\ i = first_result.steps
       /\ result = first_result.result

C7_Witness ==
    /\ IsGen /\ run = 2 /\ pc = "returned" /\ ~args.sample
    /\ args.batch = 2 /\ i = 2
    /\ lstm_states # args.states
    /\ result.sampled_ids[1] # result.sampled_ids[2]

\* C8: for labels in [0, num_classes) convert_onehot returns, without
\* raising, one row per label with num_classes columns, 1 at the label's
\* column and 0 elsewhere.
C8_OneHot ==
    (/\ call = "convert_onehot"
     /\ \A r \in 1 .. Len(args.labels) :
           args.labels[r] \in 0 .. (args.num_classes - 1))
    => /\ pc # "raised"
       /\ pc = "returned" =>
             /\ DOMAIN result = 1 .. Len(args.labels)
             /\ \A r \in DOMAIN result :
                   /\ DOMAIN result[r] = 0 .. (args.num_classes - 1)
                   /\ \A c \in DOMAIN result[r] :
                         result[r][c] = IF c = args.labels[r] THEN 1 ELSE 0

C8_Witness ==
    /\ call = "convert_onehot" /\ pc = "returned"
    /\ args.labels = <<2>> /\ args.num_classes = 5
    /\ result = <<[c \in 0 .. 4 |-> IF c = 2 THEN 1 ELSE 0]>>

\* 2^(-lo) * 2^FracBits * sum of 2^x over the row, an integer for lo the
\* row's minimum: the exact sum of exponentials.
RECURSIVE ExactSum(_, _, _)
ExactSum(row, lo, S) ==
    IF S = {} THEN 0
    ELSE LET v == CHOOSE u \in S : TRUE
         IN Pow2(row[v] - lo + FracBits) + ExactSum(row, lo, S \ {v})

\* The finite result e = max + log(sum) equals the exact log-sum-exp of the
\* row up to the terms exp rounds to zero, each below the float resolution
\* 2^(-FracBits) relative to the sum.
Exact(row, e) ==
    LET lo == RowMin(row)
        D == ExactSum(row, lo, DOMAIN row)
        A == e.sum * Pow2(e.max - lo)
    IN /\ A <= D
       /\ (D - A) * Pow2(FracBits) < VocabSize * A
       /\ (\A v \in DOMAIN row : row[v] - e.max >= 0 - FracBits) => A = D

C10_ActiveLengths ==
    (IsGen /\ args.sample /\ pc = "returned") =>
      /\ i >= 1
      /\ \A b \in Batch(args.batch) :
            /\ result.lengths[b] = IF ReachedBy(b, i) THEN FirstEnd(b) ELSE i
            /\ 1 <= result.lengths[b] /\ result.lengths[b] <= i
            /\ Len(result.log_probabilities[b]) = i
            /\ Cardinality({t \in 1 .. i : result.log_probabilities[b][t] # 0})
                  = result.lengths[b]
            /\ \A t \in 1 .. i :
                  (result.log_probabilities[b][t] # 0) <=> (t <= result.lengths[b])
      /\ \E b \in Batch(args.batch) : result.lengths[b] = i

C10_Witness ==
    /\ IsGen /\ args.sample /\ pc = "returned" /\ i = 2
    /\ \E b \in Batch(args.batch) : result.lengths[b] = 1 /\ EndAt(b, 1)
    /\ \E b \in Batch(args.batch) : result.lengths[b] = 2

====
